---- MODULE Spec2Model ----
(***************************************************************************)
(* The user registry of backend/controllers/userController.js: the        *)
(* module-level array `users` and the five request handlers that read and *)
(* change it.  One action per handler; each handler runs to completion    *)
(* (synchronous code on Node's single thread).                            *)
(*                                                                         *)
(* JavaScript values are records [t, s, n]: t is the type tag, s the      *)
(* characters of a string, n the value of a number.  Objects (user        *)
(* records, request bodies, response data) are functions from property    *)
(* names to values; an absent property reads as undefined.                *)
(***************************************************************************)
EXTENDS Integers, Sequences, FiniteSets, TLC

VARIABLES users, now, res, prev, assigned, stamped

vars == <<users, now, res, prev, assigned, stamped>>

\* Number of timestamped (successful create or update) requests explored.
MaxClock == 2

----------------------------------------------------------------------------
(* JavaScript values *)

Str(chars) == [t |-> "string", s |-> chars, n |-> 0]

Num(k) == [t |-> "number", s |-> <<>>, n |-> k]

Null == [t |-> "null", s |-> <<>>, n |-> 0]

Undefined == [t |-> "undefined", s |-> <<>>, n |-> 0]

IsString(v) == v.t = "string"

\* Property read obj.f: undefined when the object has no such property.
Get(obj, f) == IF f \in DOMAIN obj THEN obj[f] ELSE Undefined

\* !v is false: undefined, null, "" and 0 are falsy.
Truthy(v) ==
    CASE v.t = "string" -> v.s # <<>>
      [] v.t = "number" -> v.n # 0
      [] OTHER -> FALSE

\* The lower-case form of each upper-case letter.
LowerOf ==
    [A |-> "a", B |-> "b", C |-> "c", D |-> "d", E |-> "e", F |-> "f",
     G |-> "g", H |-> "h", I |-> "i", J |-> "j", K |-> "k", L |-> "l",
     M |-> "m", N |-> "n", O |-> "o", P |-> "p", Q |-> "q", R |-> "r",
     S |-> "s", T |-> "t", U |-> "u", V |-> "v", W |-> "w", X |-> "x",
     Y |-> "y", Z |-> "z"]

ToLowerChar(c) == IF c \in DOMAIN LowerOf THEN LowerOf[c] ELSE c

\* String.prototype.toLowerCase on the characters of a string.
ToLowerCase(chars) == [i \in DOMAIN chars |-> ToLowerChar(chars[i])]

WhiteSpace == {" ", "\t", "\n", "\r"}

RECURSIVE TrimStart(_)
TrimStart(chars) ==
    IF chars # <<>> /\ Head(chars) \in WhiteSpace
    THEN TrimStart(Tail(chars))
    ELSE chars

RECURSIVE TrimEnd(_)
TrimEnd(chars) ==
    IF chars # <<>> /\ chars[Len(chars)] \in WhiteSpace
    THEN TrimEnd(SubSeq(chars, 1, Len(chars) - 1))
    ELSE chars

\* String.prototype.trim.
Trim(chars) == TrimEnd(TrimStart(chars))

DecDigits == <<"0","1","2","3","4","5","6","7","8","9">>

\* The value of each digit character, letters in lower case.
DigitOf ==
    ("0" :> 0) @@ ("1" :> 1) @@ ("2" :> 2) @@ ("3" :> 3) @@ ("4" :> 4) @@
    ("5" :> 5) @@ ("6" :> 6) @@ ("7" :> 7) @@ ("8" :> 8) @@ ("9" :> 9) @@
    ("a" :> 10) @@ ("b" :> 11) @@ ("c" :> 12) @@ ("d" :> 13) @@
    ("e" :> 14) @@ ("f" :> 15)

\* Value of character c as a digit in the radix, or -1.
DigitVal(c, radix) ==
    LET lc == ToLowerChar(c)
    IN  IF lc \in DOMAIN DigitOf /\ DigitOf[lc] < radix THEN DigitOf[lc]
        ELSE -1

\* Longest prefix of chars made of digits of the radix.
RECURSIVE DigitPrefix(_, _)
DigitPrefix(chars, radix) ==
    IF chars # <<>> /\ DigitVal(Head(chars), radix) >= 0
    THEN <<Head(chars)>> \o DigitPrefix(Tail(chars), radix)
    ELSE <<>>

RECURSIVE DigitsValue(_, _)
DigitsValue(digits, radix) ==
    IF digits = <<>> THEN 0
    ELSE DigitsValue(SubSeq(digits, 1, Len(digits) - 1), radix) * radix
         + DigitVal(digits[Len(digits)], radix)

\* parseInt(string) with no radix argument: leading white space is skipped,
\* an optional sign is read, a 0x/0X prefix selects radix 16, and the
\* longest prefix of digits is converted; what follows it is ignored.
\* The result is NaN only when that prefix is empty.
ParseInt(chars) ==
    LET t == TrimStart(chars)
        signed == t # <<>> /\ Head(t) \in {"+", "-"}
        sign == IF t # <<>> /\ Head(t) = "-" THEN -1 ELSE 1
        u == IF signed THEN Tail(t) ELSE t
        hex == Len(u) >= 2 /\ u[1] = "0" /\ u[2] \in {"x", "X"}
        radix == IF hex THEN 16 ELSE 10
        body == IF hex THEN SubSeq(u, 3, Len(u)) ELSE u
        digits == DigitPrefix(body, radix)
    IN  IF digits = <<>>
        THEN [nan |-> TRUE, n |-> 0]
        ELSE [nan |-> FALSE, n |-> sign * DigitsValue(digits, radix)]

\* new Date().toISOString() at clock reading k: a string that names k.
Iso(k) == Str(<<"T", DecDigits[k + 1]>>)

----------------------------------------------------------------------------
(* Requests explored *)

admin == <<"a","d","m","i","n">>

adminEmail ==
    <<"a","d","m","i","n","@","c","o","m","p","a","n","y",".","c","o","m">>

bob == <<"b","o","b">>

BOB == <<"B","O","B">>

spaceAdmin == <<" ">> \o admin

bobEmail == <<"B","o","b","@","X",".","i","o">>

eveEmail == <<"e","@","x",".","i","o">>

ADMINEMAIL ==
    <<"A","D","M","I","N","@","c","o","m","p","a","n","y",".","c","o","m">>

pw == <<"p","w">>

pw2 == <<"p","w","2">>

\* Bodies of POST /api/users.
CreateBodies ==
    { [username |-> Str(bob), email |-> Str(bobEmail), password |-> Str(pw)],
      [username |-> Str(BOB), email |-> Str(eveEmail), password |-> Str(pw),
       role |-> Str(admin)],
      [username |-> Str(spaceAdmin), email |-> Str(eveEmail),
       password |-> Str(pw)],
      [username |-> Str(<<"e","v","e">>), email |-> Str(ADMINEMAIL),
       password |-> Str(pw)],
      [username |-> Str(bob), email |-> Str(bobEmail)],
      [username |-> Str(<<>>), email |-> Str(bobEmail), password |-> Str(pw)],
      [username |-> Num(5), email |-> Str(bobEmail), password |-> Str(pw)] }

\* Bodies of PUT /api/users/:id.
UpdateBodies ==
    { [role |-> Str(admin)],
      [username |-> Null],
      [id |-> Num(9), createdAt |-> Str(<<"x">>)],
      [username |-> Str(BOB), password |-> Str(pw2),
       updatedAt |-> Str(<<"x">>)] }

\* Values of the :id path parameter.
IdParams ==
    { <<"1">>, <<"2">>, <<"3">>, <<"a","b","c">>, <<"1",".","5">>,
      <<"1","2","a","b","c">> }

\* A request without a JSON body.
NoBody == [f \in {} |-> Undefined]

----------------------------------------------------------------------------
(* The handlers *)

PublicFields == {"id", "username", "email", "role", "createdAt"}

\* A projection that hands back the stored record whole.
SanitizeWholeRecord(user, fields) == user

\* The object literal { id: user.id, ... } as it is serialised by res.json:
\* the listed properties only, a property whose value is undefined omitted.
Sanitize(user, fields) == [f \in fields \cap DOMAIN user |-> user[f]]

ErrorKeys == {"success", "error", "message"}

Response(op, status, id, req, keys, data) ==
    [op |-> op, status |-> status, id |-> id, req |-> req, keys |-> keys,
     data |-> data]

\* users.findIndex(u => u.id === userId), as a 1-based index; 0 for -1.
FindIndex(us, userId) ==
    LET hits == {i \in DOMAIN us : Get(us[i], "id") = Num(userId)}
    IN  IF hits = {} THEN 0 ELSE CHOOSE i \in hits : \A j \in hits : i <= j

RemoveAt(seq, i) == SubSeq(seq, 1, i - 1) \o SubSeq(seq, i + 1, Len(seq))

GetAllUsersResponse(us) ==
    Response("listAll", 200, <<>>, NoBody,
             {"success", "message", "data", "count", "timestamp"},
             [i \in DOMAIN us |-> Sanitize(us[i], PublicFields)])

GetUserByIdResponse(us, id) ==
    LET userId == ParseInt(id)
        i == FindIndex(us, userId.n)
    IN  IF userId.nan
        THEN Response("getById", 400, id, NoBody, ErrorKeys, <<>>)
        ELSE IF i = 0
        THEN Response("getById", 404, id, NoBody, ErrorKeys, <<>>)
        ELSE Response("getById", 200, id, NoBody,
                      {"success", "message", "data"},
                      <<Sanitize(us[i], PublicFields)>>)

\* The callback of users.find in createUser, scanned in array order:
\* "found", "none", or "throw" when toLowerCase is called on a value that
\* is not a string (TypeError).
RECURSIVE FindExisting(_, _, _, _)
FindExisting(us, i, username, email) ==
    IF i > Len(us) THEN "none"
    ELSE IF ~IsString(Get(us[i], "username")) \/ ~IsString(username)
    THEN "throw"
    ELSE IF ToLowerCase(us[i].username.s) = ToLowerCase(username.s)
    THEN "found"
    ELSE IF ~IsString(Get(us[i], "email")) \/ ~IsString(email)
    THEN "throw"
    ELSE IF ToLowerCase(us[i].email.s) = ToLowerCase(email.s)
    THEN "found"
    ELSE FindExisting(us, i + 1, username, email)

NewUser(us, username, email, role, clock) ==
    [id |-> Num(Len(us) + 1),
     username |-> Str(Trim(username.s)),
     email |-> Str(ToLowerCase(Trim(email.s))),
     role |-> role,
     createdAt |-> Iso(clock)]

\* createUser: the response and the collection it leaves.
CreateUserResult(us, body, clock) ==
    LET username == Get(body, "username")
        email == Get(body, "email")
        password == Get(body, "password")
        role == IF Get(body, "role") = Undefined THEN Str(<<"u","s","e","r">>)
                ELSE body.role
        existing == FindExisting(us, 1, username, email)
    IN  IF ~Truthy(username) \/ ~Truthy(email) \/ ~Truthy(password)
        THEN [users |-> us,
              res |-> Response("create", 400, <<>>, body,
                               ErrorKeys \cup {"required"}, <<>>)]
        ELSE IF existing = "throw" \/ ~IsString(username) \/ ~IsString(email)
        THEN [users |-> us,
              res |-> Response("create", 500, <<>>, body, ErrorKeys, <<>>)]
        ELSE IF existing = "found"
        THEN [users |-> us,
              res |-> Response("create", 409, <<>>, body, ErrorKeys, <<>>)]
        ELSE LET newUser == NewUser(us, username, email, role, clock)
             IN  [users |-> Append(us, newUser),
                  res |-> Response("create", 201, <<>>, body,
                                   {"success", "message", "data"},
                                   <<Sanitize(newUser, PublicFields)>>)]

\* The merge with the id written before the updates are spread:
\* { ...users[userIndex], id: userId, ...updates, updatedAt: <now> }
MergeUpdateIdFirst(user, updates, userId, clock) ==
    [f \in DOMAIN user \cup DOMAIN updates \cup {"id", "updatedAt"} |->
        IF f = "updatedAt" THEN Iso(clock)
        ELSE IF f \in DOMAIN updates THEN updates[f]
        ELSE IF f = "id" THEN Num(userId)
        ELSE user[f]]

\* { ...users[userIndex], ...updates, id: userId, updatedAt: <now> }
MergeUpdate(user, updates, userId, clock) ==
    [f \in DOMAIN user \cup DOMAIN updates \cup {"id", "updatedAt"} |->
        IF f = "updatedAt" THEN Iso(clock)
        ELSE IF f = "id" THEN Num(userId)
        ELSE IF f \in DOMAIN updates THEN updates[f]
        ELSE user[f]]

\* updateUser: the response and the collection it leaves.
UpdateUserResult(us, id, updates, clock) ==
    LET userId == ParseInt(id)
        i == FindIndex(us, userId.n)
    IN  IF userId.nan
        THEN [users |-> us,
              res |-> Response("update", 400, id, updates, ErrorKeys, <<>>)]
        ELSE IF i = 0
        THEN [users |-> us,
              res |-> Response("update", 404, id, updates, ErrorKeys, <<>>)]
        ELSE LET updatedUser == MergeUpdate(us[i], updates, userId.n, clock)
             IN  [users |-> [us EXCEPT ![i] = updatedUser],
                  res |-> Response("update", 200, id, updates,
                                   {"success", "message", "data"},
                                   <<Sanitize(updatedUser,
                                              PublicFields \cup {"updatedAt"})>>)]

\* deleteUser: the response and the collection it leaves.
DeleteUserResult(us, id) ==
    LET userId == ParseInt(id)
        i == FindIndex(us, userId.n)
    IN  IF userId.nan
        THEN [users |-> us, index |-> 0,
              res |-> Response("delete", 400, id, NoBody, ErrorKeys, <<>>)]
        ELSE IF i = 0
        THEN [users |-> us, index |-> 0,
              res |-> Response("delete", 404, id, NoBody, ErrorKeys, <<>>)]
        ELSE [users |-> RemoveAt(us, i), index |-> i,
              res |-> Response("delete", 200, id, NoBody,
                               {"success", "message", "data"},
                               <<Sanitize(us[i], {"id", "username"})>>)]

----------------------------------------------------------------------------
(* State machine.  prev, assigned and stamped are history variables: the  *)
(* collection before the last request, the ids given out by createUser in *)
(* order (the seeded id first), and for each stored record the createdAt  *)
(* it was given when it was created.                                      *)

SeedUser ==
    [id |-> Num(1), username |-> Str(admin), email |-> Str(adminEmail),
     role |-> Str(admin), createdAt |-> Iso(0)]

Init ==
    /\ users = <<SeedUser>>
    /\ now = 1
    /\ res = Response("none", 0, <<>>, NoBody, {}, <<>>)
    /\ prev = <<SeedUser>>
    /\ assigned = <<1>>
    /\ stamped = <<Iso(0)>>

GetAllUsers ==
    /\ res' = GetAllUsersResponse(users)
    /\ prev' = users
    /\ UNCHANGED <<users, now, assigned, stamped>>

GetUserById ==
    \E id \in IdParams :
        /\ res' = GetUserByIdResponse(users, id)
        /\ prev' = users
        /\ UNCHANGED <<users, now, assigned, stamped>>

CreateUser ==
    \E body \in CreateBodies :
        LET r == CreateUserResult(users, body, now)
            created == r.res.status = 201
        IN  /\ created => now <= MaxClock
            /\ users' = r.users
            /\ res' = r.res
            /\ prev' = users
            /\ now' = IF created THEN now + 1 ELSE now
            /\ assigned' = IF created
                           THEN Append(assigned, r.users[Len(r.users)].id.n)
                           ELSE assigned
            /\ stamped' = IF created THEN Append(stamped, Iso(now))
                          ELSE stamped

UpdateUser ==
    \E id \in IdParams, updates \in UpdateBodies :
        LET r == UpdateUserResult(users, id, updates, now)
            updated == r.res.status = 200
        IN  /\ updated => now <= MaxClock
            /\ users' = r.users
            /\ res' = r.res
            /\ prev' = users
            /\ now' = IF updated THEN now + 1 ELSE now
            /\ UNCHANGED <<assigned, stamped>>

DeleteUser ==
    \E id \in IdParams :
        LET r == DeleteUserResult(users, id)
        IN  /\ users' = r.users
            /\ res' = r.res
            /\ prev' = users
            /\ stamped' = IF r.index = 0 THEN stamped
                          ELSE RemoveAt(stamped, r.index)
            /\ UNCHANGED <<now, assigned>>

Next ==
    \/ GetAllUsers
    \/ GetUserById
    \/ CreateUser
    \/ UpdateUser
    \/ DeleteUser

Spec == Init /\ [][Next]_vars

----------------------------------------------------------------------------
(* Properties *)

\* Two values are strings that are equal once both are lower-cased.
EqualIgnoringCase(a, b) ==
    IsString(a) /\ IsString(b) /\ ToLowerCase(a.s) = ToLowerCase(b.s)

\* The characters are an optional sign followed by decimal digits only.
ValidInteger(chars) ==
    LET u == IF chars # <<>> /\ Head(chars) \in {"+", "-"} THEN Tail(chars)
             ELSE chars
    IN  u # <<>> /\ \A i \in DOMAIN u : \E d \in DOMAIN DecDigits : DecDigits[d] = u[i]

NonEmptyString(v) == IsString(v) /\ v.s # <<>>

\* The password values that requests carry.
PasswordValues ==
    {b.password : b \in {c \in CreateBodies \cup UpdateBodies :
                             "password" \in DOMAIN c}}

\* C1: in every reachable state no two records of the collection have the
\* same id.
C1_UniqueIds ==
    \A i, j \in DOMAIN users :
        i # j => Get(users[i], "id") # Get(users[j], "id")

\* C2: the id returned by a successful create (201) is strictly greater
\* than every id assigned earlier, the seeded id 1 and the ids of deleted
\* records included.
C2_ReturnedIdIsFresh ==
    (res.op = "create" /\ res.status = 201) =>
        \A k \in 1..(Len(assigned) - 1) : res.data[1].id.n > assigned[k]

\* C3: in every reachable state no two records have usernames that are
\* equal ignoring case, and no two have emails that are equal ignoring case.
C3_UniqueNamesAndEmails ==
    \A i, j \in DOMAIN users :
        i # j =>
            /\ ~EqualIgnoringCase(Get(users[i], "username"),
                                  Get(users[j], "username"))
            /\ ~EqualIgnoringCase(Get(users[i], "email"),
                                  Get(users[j], "email"))

\* C4: once delete(id) has succeeded (200), a getById(id) issued next, with
\* nothing in between, answers 404.
C4_DeletedIsNotFound ==
    (res.op = "delete" /\ res.status = 200) =>
        GetUserByIdResponse(users, res.id).status = 404

\* C5: the stored createdAt of every record is the value stamped when the
\* record was created, and so is the createdAt an update returns.
C5_CreatedAtImmutable ==
    /\ \A i \in DOMAIN users : Get(users[i], "createdAt") = stamped[i]
    /\ (res.op = "update" /\ res.status = 200) =>
           \E i \in DOMAIN users :
               /\ Get(users[i], "id") = Get(res.data[1], "id")
               /\ Get(res.data[1], "createdAt") = stamped[i]

\* C6: a create whose username, email and password are all present (here:
\* non-empty strings) and whose username or email equals, ignoring case,
\* that of a record of the collection answers 409 and leaves the collection
\* as it was.
C6_DuplicateIsConflict ==
    ( /\ res.op = "create"
      /\ NonEmptyString(Get(res.req, "username"))
      /\ NonEmptyString(Get(res.req, "email"))
      /\ NonEmptyString(Get(res.req, "password"))
      /\ \E i \in DOMAIN prev :
            \/ EqualIgnoringCase(Get(prev[i], "username"),
                                 Get(res.req, "username"))
            \/ EqualIgnoringCase(Get(prev[i], "email"),
                                 Get(res.req, "email")) )
    => (res.status = 409 /\ users = prev)

\* C7: no response body has a password key, at the top level or in an
\* object of its data, and no property of its data holds a password value
\* that a request carried.
C7_NoPasswordInResponses ==
    /\ "password" \notin res.keys
    /\ \A i \in DOMAIN res.data :
          /\ "password" \notin DOMAIN res.data[i]
          /\ \A f \in DOMAIN res.data[i] :
                res.data[i][f] \notin PasswordValues

\* A record that holds a password (merged in by an update) has just been
\* returned by listAll.
C7_Witness ==
    /\ res.op = "listAll"
    /\ \E i \in DOMAIN users : "password" \in DOMAIN users[i]

\* C8: getById, update and delete answer 400 whenever the id path parameter
\* is not a valid integer, and leave the collection unchanged.
C8_InvalidIdRejected ==
    (res.op \in {"getById", "update", "delete"} /\ ~ValidInteger(res.id))
    => (res.status = 400 /\ users = prev)

\* C9: a successful update changes, on one record carrying the requested
\* id, only properties named in partialFields and updatedAt; that record's
\* id is unchanged even when partialFields names another id; an update with
\* only role keeps id, username, email and createdAt; every other record,
\* the number of records and their order are unchanged.
C9_UpdateFrame ==
    (res.op = "update" /\ res.status = 200) =>
        /\ Len(users) = Len(prev)
        /\ \E i \in DOMAIN prev :
              /\ prev[i].id = Num(ParseInt(res.id).n)
              /\ users[i].id = prev[i].id
              /\ \A j \in DOMAIN prev : j # i => users[j] = prev[j]
              /\ \A f \in (DOMAIN prev[i] \cup DOMAIN users[i])
                          \ (DOMAIN res.req \cup {"updatedAt"}) :
                    /\ f \in DOMAIN prev[i]
                    /\ f \in DOMAIN users[i]
                    /\ users[i][f] = prev[i][f]
              /\ \A f \in DOMAIN res.req \ {"id", "updatedAt"} :
                    Get(users[i], f) = res.req[f]
              /\ DOMAIN res.req = {"role"} =>
                    \A f \in {"id", "username", "email", "createdAt"} :
                        Get(users[i], f) = Get(prev[i], f)

\* An update that names another id has succeeded on a collection of at
\* least two records.
C9_Witness ==
    /\ res.op = "update"
    /\ res.status = 200
    /\ "id" \in DOMAIN res.req
    /\ Len(users) >= 2
    /\ users # prev

\* C10: a create whose username, email and password are non-empty strings
\* answers 201 or 409, never 500.
C10_CreateNeverInternalError ==
    ( /\ res.op = "create"
      /\ NonEmptyString(Get(res.req, "username"))
      /\ NonEmptyString(Get(res.req, "email"))
      /\ NonEmptyString(Get(res.req, "password")) )
    => res.status \in {201, 409}

====
